---- MODULE Spec2Model ----
(***************************************************************************)
(* The snake game of rust-os (src/src/game.rs) on top of the VGA text      *)
(* buffer writer (src/src/vga_buffer.rs).                                   *)
(*                                                                         *)
(* The state is the GAME singleton (difficulty, counter, snake, game_over, *)
(* next_move) and the WRITER singleton (column_position, color_code,       *)
(* buffer).  The two entry points are Game::refresh_frame (the timer tick) *)
(* and Game::accept_keyboard_input (a decoded key event).                  *)
(*                                                                         *)
(* Rust values are rendered as follows:                                    *)
(*   Position(r, c)      <<r, c>>                                          *)
(*   Option<T>           <<>> for None, <<x>> for Some(x)                  *)
(*   Result<(), &str>    <<>> for Ok(()), <<msg>> for Err(msg), msg the    *)
(*                       message's bytes                                   *)
(*   [T; N]              a function on 0..N-1                              *)
(*   u8                  its value 0..255                                  *)
(***************************************************************************)
EXTENDS Integers, Sequences, FiniteSets, TLC

VARIABLES
    difficulty,     \* Game.difficulty, as its tick divisor
    counter,        \* Game.counter
    snake,          \* Game.snake: [positions, length, direction, treat]
    game_over,      \* Game.game_over
    next_move,      \* Game.next_move: Option<Direction>
    writer,         \* WRITER: [column_position, color_code, buffer]
    ticks,          \* history: the ticks counted against MaxTicks and KeyWindow
    last,           \* history: what the latest handler call did
    written,        \* history: the calls made on the Writer directly
    cpu             \* the interrupt flag and the interrupt handlers in progress

vars == <<difficulty, counter, snake, game_over, next_move, writer, ticks, last,
          written, cpu>>

(***************************************************************************)
(* Program constants.                                                      *)
(***************************************************************************)
MAX_SNAKE_LENGTH == 100
SNAKE_START_ROW == 11
SNAKE_START_COLUMN == 0
SNAKE_START_LENGTH == 3
GAME_ROWS == 23
GAME_COLUMNS == 78
BUFFER_HEIGHT == 25
BUFFER_WIDTH == 80
Easy == 10
Medium == 5
Hard == 3

(***************************************************************************)
(* Bounds of the model.                                                    *)
(***************************************************************************)
\* refresh_frame is followed until the variable ticks reaches MaxTicks
MaxTicks == 234
\* key events arrive only while the variable ticks is below KeyWindow
KeyWindow == 11
\* the values get_random_u32() returns for the row and for the column of a treat
RowDraws == {11, 34}
ColDraws == {81, 77}
\* what the video memory holds when the program starts
BootScreens == {<<32, 7>>, <<88, 31>>}
\* the Writer is followed for MaxWrites direct calls
MaxWrites == 3
\* the interrupts are followed until MaxInterrupts of them were delivered
MaxInterrupts == 4

None == <<>>
Some(x) == <<x>>
Ok == <<>>
Err(msg) == <<msg>>

Up == "Up"
Down == "Down"
Left == "Left"
Right == "Right"
Direction == {Up, Down, Left, Right}

Position(row, column) == <<row, column>>

\* "Bounds reached!"
MsgBounds == <<66, 111, 117, 110, 100, 115, 32, 114, 101, 97, 99, 104, 101, 100, 33>>
\* "Your snake bit itself!"
MsgBit == <<89, 111, 117, 114, 32, 115, 110, 97, 107, 101, 32, 98, 105, 116, 32,
            105, 116, 115, 101, 108, 102, 33>>
\* "Snake is at maximum length"
MsgMax == <<83, 110, 97, 107, 101, 32, 105, 115, 32, 97, 116, 32, 109, 97, 120,
            105, 109, 117, 109, 32, 108, 101, 110, 103, 116, 104>>

(***************************************************************************)
(* vga_buffer.rs: the Writer.                                              *)
(***************************************************************************)
ColorCode_new(foreground_color, background_color) ==
    (background_color * 16 + foreground_color) % 256

\* A ScreenChar is #[repr(C)] { ascii_character: u8, color_code: ColorCode }:
\* the 16-bit word of the video memory, character in the low byte.
ScreenChar(byte, color) == color * 256 + byte
ascii_character(screen_char) == screen_char % 256
color_code(screen_char) == screen_char \div 256

clear_row(w, row_index) ==
    LET blank == ScreenChar(32, w.color_code)
    IN  [w EXCEPT !.buffer[row_index] = [col \in 0..BUFFER_WIDTH-1 |-> blank]]

\* mutant: the rows are copied in descending order, so that every row
\* receives the content the bottom row had
new_line_descending(w) ==
    LET moved == [w EXCEPT !.buffer =
                     [row \in 0..BUFFER_HEIGHT-1 |-> w.buffer[BUFFER_HEIGHT-1]]]
    IN  [clear_row(moved, BUFFER_HEIGHT-1) EXCEPT !.column_position = 0]

\* Rows 1..24 are copied cell by cell, in ascending order, onto rows 0..23:
\* row r-1 is written after it was read, so every row receives the old
\* content of the row below it.
new_line(w) ==
    LET moved == [w EXCEPT !.buffer =
                     [row \in 0..BUFFER_HEIGHT-1 |->
                        IF row < BUFFER_HEIGHT-1 THEN w.buffer[row+1]
                        ELSE w.buffer[row]]]
    IN  [clear_row(moved, BUFFER_HEIGHT-1) EXCEPT !.column_position = 0]

\* mutant: the row is taken to be full one column late
write_byte_wrapping_late(w, byte) ==
    IF byte = 10
    THEN new_line(w)
    ELSE LET w1 == IF w.column_position > BUFFER_WIDTH THEN new_line(w) ELSE w
             row == BUFFER_HEIGHT - 1
             col == w1.column_position
         IN  [w1 EXCEPT !.buffer[row][col] = ScreenChar(byte, w1.color_code),
                        !.column_position = col + 1]

\* mutant: a byte that arrives with the row full is dropped
write_byte_truncating(w, byte) ==
    IF byte = 10
    THEN new_line(w)
    ELSE IF w.column_position >= BUFFER_WIDTH THEN w
    ELSE [w EXCEPT !.buffer[BUFFER_HEIGHT - 1][w.column_position] =
                       ScreenChar(byte, w.color_code),
                   !.column_position = w.column_position + 1]

write_byte(w, byte) ==
    IF byte = 10
    THEN new_line(w)
    ELSE LET w1 == IF w.column_position >= BUFFER_WIDTH THEN new_line(w) ELSE w
             row == BUFFER_HEIGHT - 1
             col == w1.column_position
         IN  [w1 EXCEPT !.buffer[row][col] = ScreenChar(byte, w1.color_code),
                        !.column_position = col + 1]

\* mutant: the upper end of the range is 0x7f, so that DEL passes
RECURSIVE write_string_accepting_del(_, _)
write_string_accepting_del(w, s) ==
    IF s = <<>> THEN w
    ELSE LET byte == Head(s)
             w1 == IF byte = 10 THEN write_byte(w, byte)
                   ELSE IF byte >= 32 /\ byte <= 127 THEN write_byte(w, byte)
                   ELSE write_byte(w, 254)
         IN  IF w1.column_position >= 0
             THEN write_string_accepting_del(w1, Tail(s)) ELSE w1

\* The bytes are written in order.  A LET definition is evaluated when it is
\* first used: the test on w1 has the writer evaluated after each byte,
\* before the next byte is looked at.
RECURSIVE write_string(_, _)
write_string(w, s) ==
    IF s = <<>> THEN w
    ELSE LET byte == Head(s)
             w1 == IF byte = 10 THEN write_byte(w, byte)
                   ELSE IF byte >= 32 /\ byte <= 126 THEN write_byte(w, byte)
                   ELSE write_byte(w, 254)
         IN  IF w1.column_position >= 0 THEN write_string(w1, Tail(s)) ELSE w1

write_full_screen(w, s) ==
    [w EXCEPT !.buffer =
        [row \in 0..24 |-> [col \in 0..79 |-> ScreenChar(s[row][col], w.color_code)]]]

\* clear_row on every row
init(w) ==
    [w EXCEPT !.buffer =
        [row_index \in 0..BUFFER_HEIGHT-1 |-> clear_row(w, row_index).buffer[row_index]]]

\* print!(...): the formatted bytes go through Writer::write_str
_print(w, bytes) == write_string(w, bytes)

(***************************************************************************)
(* game.rs: the Snake.                                                     *)
(***************************************************************************)
head(s) == s.positions[s.length - 1]

body(s) == [i \in 0..(s.length - 1) |-> s.positions[i]]

\* mutant: the tail cell (index 0) is not looked at
occupies_without_tail(s, position) ==
    \E i \in 1..(s.length - 1) : s.positions[i] = position

\* body().contains(&position)
occupies(s, position) == \E i \in 0..(s.length - 1) : s.positions[i] = position

has_treat(s, position) ==
    IF s.treat # None THEN s.treat[1] = position ELSE FALSE

is_at_maximum_length(s) == s.length = MAX_SNAKE_LENGTH

\* mutant: moving Down, the row is compared with GAME_ROWS
next_step_down_off_by_one(s) ==
    LET head_row == head(s)[1]
        head_column == head(s)[2]
    IN  CASE s.direction = Right ->
               IF head_column = GAME_COLUMNS - 1 THEN None
               ELSE Some(Position(head_row, head_column + 1))
          [] s.direction = Down ->
               IF head_row = GAME_ROWS THEN None
               ELSE Some(Position(head_row + 1, head_column))
          [] s.direction = Left ->
               IF head_column = 0 THEN None
               ELSE Some(Position(head_row, head_column - 1))
          [] s.direction = Up ->
               IF head_row = 0 THEN None
               ELSE Some(Position(head_row - 1, head_column))

\* mutant: moving Left, the column is not compared with 0
next_step_left_unchecked(s) ==
    LET head_row == head(s)[1]
        head_column == head(s)[2]
    IN  CASE s.direction = Right ->
               IF head_column = GAME_COLUMNS - 1 THEN None
               ELSE Some(Position(head_row, head_column + 1))
          [] s.direction = Down ->
               IF head_row = GAME_ROWS - 1 THEN None
               ELSE Some(Position(head_row + 1, head_column))
          [] s.direction = Left ->
               Some(Position(head_row, head_column - 1))
          [] s.direction = Up ->
               IF head_row = 0 THEN None
               ELSE Some(Position(head_row - 1, head_column))

next_step(s) ==
    LET head_row == head(s)[1]
        head_column == head(s)[2]
    IN  CASE s.direction = Right ->
               IF head_column = GAME_COLUMNS - 1 THEN None
               ELSE Some(Position(head_row, head_column + 1))
          [] s.direction = Down ->
               IF head_row = GAME_ROWS - 1 THEN None
               ELSE Some(Position(head_row + 1, head_column))
          [] s.direction = Left ->
               IF head_column = 0 THEN None
               ELSE Some(Position(head_row, head_column - 1))
          [] s.direction = Up ->
               IF head_row = 0 THEN None
               ELSE Some(Position(head_row - 1, head_column))

\* mutant: the new head is stored over the old head, at index length-1
grow_overwriting_head(s) ==
    IF is_at_maximum_length(s)
    THEN [snake |-> s, result |-> Err(MsgMax)]
    ELSE IF next_step(s) # None
    THEN LET position == next_step(s)[1]
         IN  IF ~occupies(s, position)
             THEN [snake |-> [s EXCEPT !.positions[s.length - 1] = position,
                                       !.length = s.length + 1,
                                       !.treat = IF s.treat = Some(position)
                                                 THEN None ELSE s.treat],
                   result |-> Ok]
             ELSE [snake |-> s, result |-> Err(MsgBit)]
    ELSE [snake |-> s, result |-> Err(MsgBounds)]

\* The result is the snake after the call and the value returned.
grow(s) ==
    IF is_at_maximum_length(s)
    THEN [snake |-> s, result |-> Err(MsgMax)]
    ELSE IF next_step(s) # None
    THEN LET position == next_step(s)[1]
         IN  IF ~occupies(s, position)
             THEN [snake |-> [s EXCEPT !.positions[s.length] = position,
                                       !.length = s.length + 1,
                                       !.treat = IF s.treat = Some(position)
                                                 THEN None ELSE s.treat],
                   result |-> Ok]
             ELSE [snake |-> s, result |-> Err(MsgBit)]
    ELSE [snake |-> s, result |-> Err(MsgBounds)]

\* mutant: the loop starts at 1, so that the tail cell stays
move_snake_keeping_tail(s) ==
    IF next_step(s) # None
    THEN LET next_head == next_step(s)[1]
         IN  IF Some(next_head) = s.treat
             THEN grow(s)
             ELSE IF ~occupies(s, next_head)
             THEN [snake |-> [s EXCEPT !.positions =
                                [i \in 0..MAX_SNAKE_LENGTH-1 |->
                                   IF i >= 1 /\ i < s.length - 1 THEN s.positions[i+1]
                                   ELSE IF i = s.length - 1 THEN next_head
                                   ELSE s.positions[i]]],
                   result |-> Ok]
             ELSE [snake |-> s, result |-> Err(MsgBit)]
    ELSE [snake |-> s, result |-> Err(MsgBounds)]

\* mutant: the loop copies each cell onto the next one, positions[i+1] =
\* positions[i], so that the tail cell runs through the body
move_snake_copying_forward(s) ==
    IF next_step(s) # None
    THEN LET next_head == next_step(s)[1]
         IN  IF Some(next_head) = s.treat
             THEN grow(s)
             ELSE IF ~occupies(s, next_head)
             THEN [snake |-> [s EXCEPT !.positions =
                                [i \in 0..MAX_SNAKE_LENGTH-1 |->
                                   IF i < s.length - 1 THEN s.positions[0]
                                   ELSE IF i = s.length - 1 THEN next_head
                                   ELSE s.positions[i]]],
                   result |-> Ok]
             ELSE [snake |-> s, result |-> Err(MsgBit)]
    ELSE [snake |-> s, result |-> Err(MsgBounds)]

move_snake(s) ==
    IF next_step(s) # None
    THEN LET next_head == next_step(s)[1]
         IN  IF Some(next_head) = s.treat
             THEN grow(s)
             ELSE IF ~occupies(s, next_head)
             THEN [snake |-> [s EXCEPT !.positions =
                                [i \in 0..MAX_SNAKE_LENGTH-1 |->
                                   IF i < s.length - 1 THEN s.positions[i+1]
                                   ELSE IF i = s.length - 1 THEN next_head
                                   ELSE s.positions[i]]],
                   result |-> Ok]
             ELSE [snake |-> s, result |-> Err(MsgBit)]
    ELSE [snake |-> s, result |-> Err(MsgBounds)]

\* mutant: every new direction is taken
turn_unconditional(s, new_direction) == [s EXCEPT !.direction = new_direction]

turn(s, new_direction) ==
    CASE s.direction = Right /\ new_direction = Left -> s
      [] s.direction = Left /\ new_direction = Right -> s
      [] s.direction = Up /\ new_direction = Down -> s
      [] s.direction = Down /\ new_direction = Up -> s
      [] OTHER -> [s EXCEPT !.direction = new_direction]

RECURSIVE grow_times(_, _)
grow_times(s, n) ==
    IF n = 0 THEN s ELSE grow_times(grow(s).snake, n - 1)

Snake_new ==
    grow_times([positions |-> [i \in 0..MAX_SNAKE_LENGTH-1 |->
                                 Position(SNAKE_START_ROW, SNAKE_START_COLUMN)],
                length |-> 1,
                direction |-> Right,
                treat |-> None],
               SNAKE_START_LENGTH - 1)

(***************************************************************************)
(* game.rs: the Game.                                                      *)
(***************************************************************************)
\* mutant: the value after the increment is returned
fetch_add_counter_returning_new(c) == [old_counter |-> c + 1, counter |-> c + 1]

\* The counter is a u32; MaxTicks keeps it far below the value at which
\* `*counter += 1` overflows.
fetch_add_counter(c) == [old_counter |-> c, counter |-> c + 1]

\* mutant: the length of the snake is not looked at
make_treat_at_any_length(s) ==
    IF s.treat # None THEN {s}
    ELSE {[s EXCEPT !.treat = Some(p)] :
            p \in {p \in {Position(r % GAME_ROWS, c % GAME_COLUMNS) :
                             r \in RowDraws, c \in ColDraws} : ~occupies(s, p)}}

\* mutant: the first sample is taken, on the body or not
make_treat_without_rejection(s) ==
    IF ~is_at_maximum_length(s)
    THEN IF s.treat # None THEN {s}
         ELSE {[s EXCEPT !.treat = Some(Position(r % GAME_ROWS, c % GAME_COLUMNS))] :
                 r \in RowDraws, c \in ColDraws}
    ELSE {s}

\* The snakes make_treat can leave: the loop ends with the first sample
\* that the snake does not occupy.
make_treat(s) ==
    IF ~is_at_maximum_length(s)
    THEN IF s.treat # None THEN {s}
         ELSE {[s EXCEPT !.treat = Some(Position(random_row, random_col))] :
                 <<random_row, random_col>> \in
                   {p \in {Position(r % GAME_ROWS, c % GAME_COLUMNS) :
                             r \in RowDraws, c \in ColDraws} : ~occupies(s, p)}}
    ELSE {s}

\* mutant: the body is looked at before the head
print_character_body_first(s, snake_head, position) ==
    IF has_treat(s, position) THEN 120
    ELSE IF occupies(s, position) THEN 43
    ELSE IF position = snake_head
    THEN CASE s.direction = Right -> 62
           [] s.direction = Down -> 118
           [] s.direction = Left -> 60
           [] s.direction = Up -> 94
    ELSE 32

print_character(s, snake_head, position) ==
    IF position = snake_head
    THEN CASE s.direction = Right -> 62
           [] s.direction = Down -> 118
           [] s.direction = Left -> 60
           [] s.direction = Up -> 94
    ELSE IF has_treat(s, position) THEN 120
    ELSE IF occupies(s, position) THEN 43
    ELSE 32

print_array(s) ==
    LET snake_head == head(s)
    IN  [row \in 0..24 |-> [column \in 0..79 |->
            IF row - 1 \in 0..GAME_ROWS-1 /\ column - 1 \in 0..GAME_COLUMNS-1
            THEN print_character(s, snake_head, Position(row - 1, column - 1))
            ELSE IF row = 0 \/ row = 24 \/ column = 0 \/ column = 79 THEN 35
            ELSE 32]]

print(s, w) == write_full_screen(w, print_array(s))

\* format!("{:^80}", msg): the padding is split, the smaller half first
center80(msg) ==
    IF Len(msg) >= 80 THEN msg
    ELSE LET padding == 80 - Len(msg)
             left == padding \div 2
         IN  [i \in 1..80 |-> IF i > left /\ i <= left + Len(msg)
                              THEN msg[i - left] ELSE 32]

\* for _ in 0..n { print!("\n"); }
RECURSIVE print_newlines(_, _)
print_newlines(w, n) ==
    IF n = 0 THEN w
    ELSE LET w1 == _print(w, <<10>>)
         IN  IF w1.column_position >= 0 THEN print_newlines(w1, n - 1) ELSE w1

\* mutant: one newline less behind the message
print_msg_one_newline_short(msg, w) ==
    print_newlines(_print(print_newlines(w, 25), center80(msg)), 12)

print_msg(msg, w) ==
    print_newlines(_print(print_newlines(w, 25), center80(msg)), 13)

KeyCode == {"ArrowUp", "ArrowRight", "ArrowDown", "ArrowLeft", "Spacebar"}
KeyState == {"Down", "Up"}
KeyEvent == [code : KeyCode, state : KeyState]

Init ==
    /\ difficulty = Hard
    /\ counter = 0
    /\ snake = Snake_new
    /\ game_over = FALSE
    /\ next_move = None
    /\ \E boot \in BootScreens :
         writer = [column_position |-> 0,
                   color_code |-> ColorCode_new(7, 0),
                   buffer |-> [row \in 0..BUFFER_HEIGHT-1 |->
                                 [col \in 0..BUFFER_WIDTH-1 |->
                                    ScreenChar(boot[1], boot[2])]]]
    /\ ticks = 0
    /\ last = [call |-> "new", stepped |-> FALSE, result |-> Ok,
               pending |-> None, from |-> Snake_new, at_move |-> Snake_new,
               steps |-> 0]
    /\ written = [call |-> "none", arg |-> <<>>, line |-> <<>>, newlines |-> 0,
                  text_only |-> TRUE, calls |-> 0]
    /\ cpu = [interrupts_enabled |-> TRUE, handlers |-> <<>>, delivered |-> 0]

(***************************************************************************)
(* A later state of the same program, from which the maximum length is in  *)
(* reach.  From Game::new the snake gets there in 158 simulation steps     *)
(* (472 ticks): it turns Up for two steps to (9,2), runs Right along       *)
(* row 9 to (9,77), turns Down to (10,77), runs Left along row 10 to       *)
(* (10,0), turns Down to (11,0) and Right to (11,2).  The first treat      *)
(* falls on (9,63) and is eaten in step 63; from then on every treat falls *)
(* on the cell in front of the head and is eaten in the step that made it, *)
(* the 96th in step 158 on (11,2).  The body is then the 99 cells entered  *)
(* in steps 60..158, and slot 99 of the buffer still holds the value       *)
(* Snake::new filled it with.                                              *)
(***************************************************************************)
Snake_long ==
    [positions |-> [i \in 0..MAX_SNAKE_LENGTH-1 |->
                      IF i < 18 THEN Position(9, 60 + i)
                      ELSE IF i < 96 THEN Position(10, 95 - i)
                      ELSE IF i < 99 THEN Position(11, i - 96)
                      ELSE Position(SNAKE_START_ROW, SNAKE_START_COLUMN)],
     length |-> 99,
     direction |-> Right,
     treat |-> None]

\* The state two ticks after step 158: the next tick is a simulation step.
\* Behaviours that start here have no key events; the snake runs straight on.
InitLong ==
    /\ difficulty = Hard
    /\ counter = 474
    /\ snake = Snake_long
    /\ game_over = FALSE
    /\ next_move = None
    /\ writer = print(Snake_long,
                      [column_position |-> 0,
                       color_code |-> ColorCode_new(7, 0),
                       buffer |-> [row \in 0..BUFFER_HEIGHT-1 |->
                                     [col \in 0..BUFFER_WIDTH-1 |-> ScreenChar(32, 7)]]])
    /\ ticks = KeyWindow
    /\ last = [call |-> "tick", stepped |-> FALSE, result |-> Ok,
               pending |-> None, from |-> Snake_long,
               at_move |-> Snake_long, steps |-> 158]
    /\ written = [call |-> "none", arg |-> <<>>, line |-> <<>>, newlines |-> 0,
                  text_only |-> TRUE, calls |-> 0]
    /\ cpu = [interrupts_enabled |-> TRUE, handlers |-> <<>>, delivered |-> 0]

\* mutant: the game_over flag is not looked at
step_due_ignoring_game_over(old_counter) == old_counter % difficulty = 0

\* The condition under which refresh_frame performs a simulation step.
step_due(old_counter) == old_counter % difficulty = 0 /\ ~game_over

\* mutant: the pending direction is cleared only when the step succeeds
refresh_frame_clearing_on_success ==
    /\ ticks < MaxTicks
    /\ ticks' = ticks + 1
    /\ counter' = fetch_add_counter(counter).counter
    /\ IF step_due(fetch_add_counter(counter).old_counter)
       THEN \E s1 \in make_treat(snake) :
              LET s2 == IF next_move # None THEN turn(s1, next_move[1]) ELSE s1
                  r == move_snake(s2)
              IN  /\ snake' = r.snake
                  /\ IF r.result = Ok
                     THEN /\ writer' = print(r.snake, writer)
                          /\ game_over' = game_over
                     ELSE /\ game_over' = TRUE
                          /\ writer' = print_msg(r.result[1], writer)
                  /\ next_move' = IF r.result = Ok THEN None ELSE next_move
                  /\ last' = [call |-> "tick", stepped |-> TRUE, result |-> r.result,
                              pending |-> next_move, from |-> snake, at_move |-> s2,
                              steps |-> last.steps + 1]
       ELSE /\ UNCHANGED <<snake, game_over, next_move, writer>>
            /\ last' = [call |-> "tick", stepped |-> FALSE, result |-> Ok,
                        pending |-> next_move, from |-> snake, at_move |-> snake,
                        steps |-> last.steps]
    /\ UNCHANGED <<difficulty, written, cpu>>

\* `last` records the call: whether it stepped, what move_snake returned, the
\* pending direction and the snake it found, the snake move_snake was called
\* on (the treat made, the turn taken), and the simulation steps so far.
refresh_frame ==
    /\ ticks < MaxTicks
    /\ ticks' = ticks + 1
    /\ counter' = fetch_add_counter(counter).counter
    /\ IF step_due(fetch_add_counter(counter).old_counter)
       THEN \E s1 \in make_treat(snake) :
              LET s2 == IF next_move # None THEN turn(s1, next_move[1]) ELSE s1
                  r == move_snake(s2)
              IN  /\ snake' = r.snake
                  /\ IF r.result = Ok
                     THEN /\ writer' = print(r.snake, writer)
                          /\ game_over' = game_over
                     ELSE /\ game_over' = TRUE
                          /\ writer' = print_msg(r.result[1], writer)
                  /\ next_move' = None
                  /\ last' = [call |-> "tick", stepped |-> TRUE, result |-> r.result,
                              pending |-> next_move, from |-> snake, at_move |-> s2,
                              steps |-> last.steps + 1]
       ELSE /\ UNCHANGED <<snake, game_over, next_move, writer>>
            /\ last' = [call |-> "tick", stepped |-> FALSE, result |-> Ok,
                        pending |-> next_move, from |-> snake, at_move |-> snake,
                        steps |-> last.steps]
    /\ UNCHANGED <<difficulty, written, cpu>>

\* mutant: the state of the key (pressed, released) is not looked at
accept_keyboard_input_any_state(key_event) ==
    /\ ticks < KeyWindow
    /\ next_move' =
         CASE key_event.code = "ArrowUp" -> Some(Up)
           [] key_event.code = "ArrowRight" -> Some(Right)
           [] key_event.code = "ArrowDown" -> Some(Down)
           [] key_event.code = "ArrowLeft" -> Some(Left)
           [] OTHER -> next_move
    /\ last' = [call |-> "key", stepped |-> FALSE, result |-> Ok,
                pending |-> next_move, from |-> snake, at_move |-> snake,
                steps |-> last.steps]
    /\ UNCHANGED <<difficulty, counter, snake, game_over, writer, ticks, written, cpu>>

accept_keyboard_input(key_event) ==
    /\ ticks < KeyWindow
    /\ next_move' =
         IF key_event.state = "Down"
         THEN CASE key_event.code = "ArrowUp" -> Some(Up)
                [] key_event.code = "ArrowRight" -> Some(Right)
                [] key_event.code = "ArrowDown" -> Some(Down)
                [] key_event.code = "ArrowLeft" -> Some(Left)
                [] OTHER -> next_move
         ELSE next_move
    /\ last' = [call |-> "key", stepped |-> FALSE, result |-> Ok,
                pending |-> next_move, from |-> snake, at_move |-> snake,
                steps |-> last.steps]
    /\ UNCHANGED <<difficulty, counter, snake, game_over, writer, ticks, written, cpu>>

handle_key == \E key_event \in KeyEvent : accept_keyboard_input(key_event)

Next == refresh_frame \/ handle_key

Spec == Init /\ [][Next]_vars

\* the behaviours from Game::new, and those from the later state
SpecLong == (Init \/ InitLong) /\ [][Next]_vars

(***************************************************************************)
(* The Writer on its own: its public methods called in any order, as the   *)
(* print! macros and the tests of vga_buffer.rs call them.                 *)
(***************************************************************************)
\* the bytes given to write_byte: newline, 'A', '~', and a byte that is not ASCII
ByteDraws == {10, 65, 126, 200}

\* the strings given to write_string, as their bytes
TextDraws ==
    { <<10>>,                                       \* "\n"
      <<72, 105>>,                                  \* "Hi"
      <<97, 7, 195, 169, 127, 126, 32>>,            \* "a\x07\u{e9}\x7f~ "
      <<79, 75, 10, 33>>,                           \* "OK\n!"
      [i \in 1..80 |-> 48 + (i % 10)],              \* 80 digits
      [i \in 1..100 |-> 48 + (i % 10)],             \* 100 digits
      [i \in 1..27 |-> IF i = 27 THEN 35 ELSE 10] } \* 26 newlines and "#"

\* the images given to write_full_screen: a frame of the game, and an image
\* of bytes nobody validated
ScreenDraws ==
    { print_array(Snake_new),
      [row \in 0..24 |-> [col \in 0..79 |-> IF col = row THEN 0 ELSE 219]] }

\* the number of newline bytes in a string
newlines_in(s) == Cardinality({i \in 1..Len(s) : s[i] = 10})

\* the bytes of a string after its last newline byte (all of it if it has none)
after_newline(s) ==
    LET at == {i \in 1..Len(s) : s[i] = 10}
        from == IF at = {} THEN 0 ELSE CHOOSE i \in at : \A j \in at : j <= i
    IN  SubSeq(s, from + 1, Len(s))

\* the history of direct calls after a call that was given the bytes s
written_text(call, s) ==
    [call |-> call, arg |-> s,
     line |-> IF newlines_in(s) > 0 THEN after_newline(s)
              ELSE written.line \o s,
     newlines |-> written.newlines + newlines_in(s),
     text_only |-> written.text_only,
     calls |-> written.calls + 1]

Writer_write_byte(byte) ==
    /\ written.calls < MaxWrites
    /\ writer' = write_byte(writer, byte)
    /\ written' = written_text("write_byte", <<byte>>)
    /\ UNCHANGED <<difficulty, counter, snake, game_over, next_move, ticks, last, cpu>>

Writer_write_string(s) ==
    /\ written.calls < MaxWrites
    /\ writer' = write_string(writer, s)
    /\ written' = written_text("write_string", s)
    /\ UNCHANGED <<difficulty, counter, snake, game_over, next_move, ticks, last, cpu>>

Writer_write_full_screen(s) ==
    /\ written.calls < MaxWrites
    /\ writer' = write_full_screen(writer, s)
    /\ written' = [written EXCEPT !.call = "write_full_screen", !.arg = s,
                                  !.text_only = FALSE, !.calls = @ + 1]
    /\ UNCHANGED <<difficulty, counter, snake, game_over, next_move, ticks, last, cpu>>

Writer_init ==
    /\ written.calls < MaxWrites
    /\ writer' = init(writer)
    /\ written' = [written EXCEPT !.call = "init", !.arg = <<>>,
                                  !.text_only = FALSE, !.calls = @ + 1]
    /\ UNCHANGED <<difficulty, counter, snake, game_over, next_move, ticks, last, cpu>>

NextWriter ==
    \/ \E byte \in ByteDraws : Writer_write_byte(byte)
    \/ \E s \in TextDraws : Writer_write_string(s)
    \/ \E s \in ScreenDraws : Writer_write_full_screen(s)
    \/ Writer_init

SpecWriter == Init /\ [][NextWriter]_vars

(***************************************************************************)
(* Vocabulary of the properties, stated apart from the operators above.    *)
(***************************************************************************)
\* the call that led to the new state was refresh_frame / accept_keyboard_input
IsTick == last'.call = "tick"
IsKey == last'.call = "key"

\* a tick that finds the game Running with the counter on a multiple of the divisor
Qualifying == ~game_over /\ counter % difficulty = 0

Opposite(a, b) ==
    <<a, b>> \in {<<Right, Left>>, <<Left, Right>>, <<Up, Down>>, <<Down, Up>>}

\* the direction the snake moves in on a qualifying tick that finds direction d
\* and the pending direction p
AfterTurn(d, p) ==
    IF p = None THEN d ELSE IF Opposite(d, p[1]) THEN d ELSE p[1]

\* the cell next to position p in direction d
Advance(p, d) ==
    CASE d = Right -> <<p[1], p[2] + 1>>
      [] d = Left -> <<p[1], p[2] - 1>>
      [] d = Up -> <<p[1] - 1, p[2]>>
      [] d = Down -> <<p[1] + 1, p[2]>>

InPlayField(p) == p[1] >= 0 /\ p[1] < 23 /\ p[2] >= 0 /\ p[2] < 78

\* position p is on the edge of the play-field that direction d points at
FacesEdge(p, d) ==
    \/ d = Right /\ p[2] = 77
    \/ d = Left /\ p[2] = 0
    \/ d = Up /\ p[1] = 0
    \/ d = Down /\ p[1] = 22

SnakeHead == snake.positions[snake.length - 1]
SnakeBody == {snake.positions[i] : i \in 0..(snake.length - 1)}

\* the display shows `msg` centred on row 11 and blanks everywhere else
ShowsMessage(msg) ==
    \A row \in 0..24 : \A col \in 0..79 :
        writer.buffer[row][col] % 256 =
            IF row = 11 /\ col >= (80 - Len(msg)) \div 2
                        /\ col < (80 - Len(msg)) \div 2 + Len(msg)
            THEN msg[col - (80 - Len(msg)) \div 2 + 1]
            ELSE 32

(***************************************************************************)
(* C1  GameOver is terminal: once game_over is set it stays set, and a     *)
(* tick in GameOver adds one to the counter and leaves the snake           *)
(* (positions, length, direction, treat), the pending direction and the    *)
(* whole display as they were.                                             *)
(***************************************************************************)
C1_GameOverTerminal ==
    [][game_over =>
         /\ game_over'
         /\ IsTick => /\ counter' = counter + 1
                      /\ snake' = snake
                      /\ next_move' = next_move
                      /\ writer' = writer]_vars

\* a tick on a multiple of the divisor happened in GameOver, with a
\* direction pending, and left it pending
C1_Witness ==
    /\ game_over
    /\ last.call = "tick"
    /\ (counter - 1) % difficulty = 0
    /\ ~last.stepped
    /\ next_move # None
    /\ last.from = snake

(***************************************************************************)
(* C2  Difficulty gating: every tick adds exactly one to the counter; a    *)
(* tick in Running steps the simulation and changes the display if and     *)
(* only if the counter it finds is a multiple of the divisor, and          *)
(* otherwise changes nothing else; so while Running the number of steps    *)
(* taken is the number of counter values below the counter that are        *)
(* multiples of the divisor: the first tick steps and every window of N    *)
(* ticks holds exactly one step.                                           *)
(***************************************************************************)
C2_StepsWhileRunning ==
    ~game_over => last.steps = (counter + difficulty - 1) \div difficulty

C2_DifficultyGating ==
    /\ difficulty = 3
    /\ C2_StepsWhileRunning
    /\ [][/\ difficulty' = 3
          /\ C2_StepsWhileRunning'
          /\ IsTick =>
               /\ counter' = counter + 1
               /\ ~game_over =>
                    /\ last'.stepped <=> counter % difficulty = 0
                    /\ writer'.buffer # writer.buffer <=> counter % difficulty = 0
                    /\ snake' # snake => counter % difficulty = 0
                    /\ counter % difficulty # 0 =>
                         UNCHANGED <<snake, game_over, next_move, writer>>]_vars

\* the fourth tick of a run in Running: the second step, three ticks after the first
C2_Witness ==
    /\ ~game_over
    /\ last.call = "tick"
    /\ last.stepped
    /\ counter = 4
    /\ last.steps = 2

(***************************************************************************)
(* C3  Boundary termination: a qualifying tick that finds the head on the  *)
(* edge its direction (the pending turn applied) points at ends the game   *)
(* with "Bounds reached!"; the body and the length stay as they were, and  *)
(* the display gets the message, not a frame of the grid.                  *)
(***************************************************************************)
C3_BoundaryTermination ==
    [][(IsTick /\ Qualifying
          /\ FacesEdge(SnakeHead, AfterTurn(snake.direction, next_move))) =>
         /\ game_over'
         /\ last'.result = Err(MsgBounds)
         /\ snake'.positions = snake.positions
         /\ snake'.length = snake.length
         /\ ShowsMessage(MsgBounds)'
         /\ writer'.buffer # print(snake', writer).buffer]_vars

\* the game ended on the right edge: head in column 77, moving Right
C3_Witness ==
    /\ game_over
    /\ last.call = "tick"
    /\ last.stepped
    /\ last.result = Err(MsgBounds)
    /\ SnakeHead[2] = 77
    /\ snake.direction = Right
    /\ ShowsMessage(MsgBounds)

(***************************************************************************)
(* C4  Self-collision termination: a qualifying tick whose next head       *)
(* position is in the play-field, is not the treat and is a cell of the    *)
(* body (the tail cell included) ends the game with "Your snake bit        *)
(* itself!"; the body and the length stay as they were.                    *)
(***************************************************************************)
C4_SelfCollision ==
    [][(IsTick /\ Qualifying) =>
         LET next_head == Advance(SnakeHead, AfterTurn(snake.direction, next_move))
         IN  (/\ InPlayField(next_head)
              /\ last'.at_move.treat # <<next_head>>
              /\ next_head \in SnakeBody) =>
                 /\ game_over'
                 /\ last'.result = Err(MsgBit)
                 /\ snake'.positions = snake.positions
                 /\ snake'.length = snake.length
                 /\ ShowsMessage(MsgBit)']_vars

\* the game ended with the head about to enter the tail cell
C4_Witness ==
    /\ game_over
    /\ last.call = "tick"
    /\ last.result = Err(MsgBit)
    /\ InPlayField(Advance(SnakeHead, snake.direction))
    /\ Advance(SnakeHead, snake.direction) = snake.positions[0]
    /\ snake.treat # <<snake.positions[0]>>

(***************************************************************************)
(* C5  Direction reversal no-op: on a qualifying tick a pending direction  *)
(* opposite to the current one leaves the direction as it was, any other   *)
(* pending direction becomes the direction, and a step that succeeds puts  *)
(* the head one cell further in that direction: Right with Left pending    *)
(* keeps moving Right; Right with Up or Down pending turns.                *)
(***************************************************************************)
C5_ReversalNoOp ==
    [][(IsTick /\ Qualifying /\ next_move # None) =>
         /\ (snake.direction = Right /\ next_move = <<Left>>) => snake'.direction = Right
         /\ (snake.direction = Left /\ next_move = <<Right>>) => snake'.direction = Left
         /\ (snake.direction = Up /\ next_move = <<Down>>) => snake'.direction = Up
         /\ (snake.direction = Down /\ next_move = <<Up>>) => snake'.direction = Down
         /\ ~Opposite(snake.direction, next_move[1]) => snake'.direction = next_move[1]
         /\ last'.result = Ok => SnakeHead' = Advance(SnakeHead, snake'.direction)]_vars

\* Left was pending while moving Right, and the snake went one cell to the right
C5_Witness ==
    /\ last.call = "tick"
    /\ last.stepped
    /\ last.pending = <<Left>>
    /\ last.from.direction = Right
    /\ last.result = Ok
    /\ snake.direction = Right
    /\ SnakeHead = <<last.from.positions[last.from.length - 1][1],
                     last.from.positions[last.from.length - 1][2] + 1>>

(***************************************************************************)
(* C6  No duplicate body cell: the positions at indices 0..length-1 are    *)
(* pairwise distinct in every reachable state.                             *)
(***************************************************************************)
C6_NoDuplicateCell ==
    \A i \in 0..(snake.length - 1) : \A j \in 0..(snake.length - 1) :
        i # j => snake.positions[i] # snake.positions[j]

\* a snake that has grown and turned back next to its own body
C6_Witness ==
    /\ snake.length >= 4
    /\ last.call = "tick"
    /\ last.stepped
    /\ last.result = Ok
    /\ \E d \in Direction : Advance(SnakeHead, d) \in SnakeBody \ {snake.positions[snake.length - 2]}

(***************************************************************************)
(* C7  Snake domain invariant: 1 <= length <= 100, the buffer has its 100  *)
(* slots, and every position at indices 0..length-1 has row < 23 and       *)
(* column < 78.                                                            *)
(***************************************************************************)
C7_SnakeDomain ==
    /\ snake.length >= 1
    /\ snake.length <= 100
    /\ DOMAIN snake.positions = 0..99
    /\ \A i \in 0..(snake.length - 1) :
         /\ snake.positions[i][1] >= 0 /\ snake.positions[i][1] < 23
         /\ snake.positions[i][2] >= 0 /\ snake.positions[i][2] < 78

\* a snake of the maximum length that has moved on, no treat being made for it
C7_Witness ==
    /\ snake.length = 100
    /\ last.call = "tick"
    /\ last.stepped
    /\ last.result = Ok
    /\ last.from.length = 100
    /\ last.at_move.treat = None
    /\ SnakeHead = Advance(last.from.positions[99], Right)

(***************************************************************************)
(* C8  Treat placement: whenever a treat is present it lies in the         *)
(* play-field and on no cell of the body.                                  *)
(***************************************************************************)
C8_TreatOffBody ==
    snake.treat # None =>
        /\ InPlayField(snake.treat[1])
        /\ snake.treat[1] \notin SnakeBody

\* a treat made by a tick while the body lay on another cell a treat can fall on
C8_Witness ==
    /\ last.call = "tick"
    /\ last.stepped
    /\ last.from.treat = None
    /\ snake.treat = <<(<<11, 77>>)>>
    /\ <<11, 3>> \in {last.from.positions[i] : i \in 0..(last.from.length - 1)}

(***************************************************************************)
(* C9  Snake growth: the snake Game::new builds is (11,0),(11,1),(11,2)    *)
(* moving Right; a qualifying tick whose next head position is the treat   *)
(* (below the maximum length) adds one to the length, stores the next      *)
(* position at the index of the old length, keeps every earlier cell, and  *)
(* leaves no treat; from the initial snake that gives 4 cells with head    *)
(* (11,3).                                                                 *)
(***************************************************************************)
C9_Grown ==
    (last.call = "tick" /\ last.from = Snake_new /\ last.at_move.treat = <<(<<11, 3>>)>>
       /\ last.pending \in {None, <<Right>>, <<Left>>}) =>
        /\ snake.length = 4
        /\ [i \in 0..3 |-> snake.positions[i]] =
             [i \in 0..3 |-> <<11, i>>]

C9_SnakeGrowth ==
    /\ snake.length = 3
    /\ [i \in 0..2 |-> snake.positions[i]] = [i \in 0..2 |-> <<11, i>>]
    /\ snake.direction = Right
    /\ [][/\ C9_Grown'
          /\ (IsTick /\ Qualifying) =>
               LET next_head == Advance(SnakeHead, AfterTurn(snake.direction, next_move))
               IN  (last'.at_move.treat = <<next_head>> /\ snake.length < 100) =>
                     /\ last'.result = Ok
                     /\ snake'.length = snake.length + 1
                     /\ snake'.positions[snake.length] = next_head
                     /\ \A i \in 0..(snake.length - 1) :
                          snake'.positions[i] = snake.positions[i]
                     /\ snake'.treat = None]_vars

\* the initial snake has eaten the treat at (11,3)
C9_Witness ==
    /\ last.call = "tick"
    /\ last.from = Snake_new
    /\ last.at_move.treat = <<(<<11, 3>>)>>
    /\ snake.length = 4
    /\ SnakeHead = <<11, 3>>
    /\ snake.treat = None

(***************************************************************************)
(* C10  accept_keyboard_input only stages input: it leaves the snake,      *)
(* game_over, the counter and the writer as they were; the press of an     *)
(* arrow key makes that arrow the pending direction, whatever was pending; *)
(* a release, or the press of another key, leaves the pending direction.   *)
(***************************************************************************)
ArrowOf(code) ==
    CASE code = "ArrowUp" -> Up
      [] code = "ArrowRight" -> Right
      [] code = "ArrowDown" -> Down
      [] code = "ArrowLeft" -> Left

C10_KeyOnlyStages ==
    [][\A key_event \in KeyEvent :
         accept_keyboard_input(key_event) =>
           /\ UNCHANGED <<snake, game_over, counter, writer, difficulty>>
           /\ IF key_event.state = "Down"
                 /\ key_event.code \in {"ArrowUp", "ArrowRight", "ArrowDown", "ArrowLeft"}
              THEN next_move' = <<ArrowOf(key_event.code)>>
              ELSE next_move' = next_move]_vars

\* the press of ArrowLeft replaced a pending Up, between two ticks, and
\* nothing else of the game has changed since the tick before
C10_Witness ==
    /\ last.call = "key"
    /\ last.pending = <<Up>>
    /\ next_move = <<Left>>
    /\ counter = 2
    /\ snake = last.from
    /\ ~game_over

(***************************************************************************)
(* The two handlers under interrupts.  The timer interrupt calls           *)
(* refresh_frame and the keyboard interrupt accept_keyboard_input; a       *)
(* handler is entered with interrupt delivery switched off and returns     *)
(* with it switched on again.  refresh_frame is cut where its sections     *)
(* under without_interrupts begin and end: between two sections an         *)
(* interrupt is delivered if the interrupt flag allows it.                 *)
(***************************************************************************)
\* mutant: interrupts are enabled after the section, whatever they were before
without_interrupts_enabling(interrupts_enabled) == TRUE

\* without_interrupts(|| ...): the interrupt flag after the section is what
\* it was before it
without_interrupts(interrupts_enabled) == interrupts_enabled

\* the handler that runs, and whether it is `handler` at `pc`
running == cpu.handlers[Len(cpu.handlers)]
at(handler, pc) ==
    /\ cpu.handlers # <<>>
    /\ running.handler = handler
    /\ running.pc = pc

\* the interrupt of `handler` is delivered: its handler starts at `pc`
enter(handler, pc, key_event) ==
    /\ cpu.interrupts_enabled
    /\ cpu.delivered < MaxInterrupts
    /\ cpu' = [interrupts_enabled |-> FALSE,
               handlers |-> Append(cpu.handlers,
                               [handler |-> handler, pc |-> pc, key_event |-> key_event,
                                msg |-> <<>>, printed |-> 0]),
               delivered |-> cpu.delivered + 1]

timer_interrupt ==
    /\ enter("timer", "fetch_add_counter", None)
    /\ UNCHANGED <<difficulty, counter, snake, game_over, next_move, writer, ticks,
                   last, written>>

keyboard_interrupt(key_event) ==
    /\ enter("keyboard", "accept_keyboard_input", Some(key_event))
    /\ UNCHANGED <<difficulty, counter, snake, game_over, next_move, writer, ticks,
                   last, written>>

\* let counter = self.fetch_add_counter(); and the test on it
fetch_add_counter_section ==
    /\ at("timer", "fetch_add_counter")
    /\ counter' = fetch_add_counter(counter).counter
    /\ cpu' = [cpu EXCEPT
                 !.interrupts_enabled = without_interrupts(cpu.interrupts_enabled),
                 !.handlers[Len(cpu.handlers)].pc =
                     IF step_due(fetch_add_counter(counter).old_counter)
                     THEN "move_snake" ELSE "return"]
    /\ UNCHANGED <<difficulty, snake, game_over, next_move, writer, ticks, last, written>>

\* self.make_treat(); the turn; self.snake.move_snake(); self.game_over = true
move_snake_section ==
    /\ at("timer", "move_snake")
    /\ \E s1 \in make_treat(snake) :
         LET s2 == IF next_move # None THEN turn(s1, next_move[1]) ELSE s1
             r == move_snake(s2)
         IN  /\ snake' = r.snake
             /\ game_over' = IF r.result = Ok THEN game_over ELSE TRUE
             /\ cpu' = [cpu EXCEPT
                          !.handlers[Len(cpu.handlers)].pc =
                              IF r.result = Ok THEN "print" ELSE "print_msg",
                          !.handlers[Len(cpu.handlers)].msg = r.result]
    /\ UNCHANGED <<difficulty, counter, next_move, writer, ticks, last, written>>

\* self.print(): the frame is written in one section
print_section ==
    /\ at("timer", "print")
    /\ writer' = print(snake, writer)
    /\ cpu' = [cpu EXCEPT
                 !.interrupts_enabled = without_interrupts(cpu.interrupts_enabled),
                 !.handlers[Len(cpu.handlers)].pc = "next_move"]
    /\ UNCHANGED <<difficulty, counter, snake, game_over, next_move, ticks, last, written>>

\* Game::print_msg(msg): one of its 39 print! calls, each a section of its own
print_msg_section ==
    /\ at("timer", "print_msg")
    /\ writer' = _print(writer, IF running.printed = 25 THEN center80(running.msg[1])
                                ELSE <<10>>)
    /\ cpu' = [cpu EXCEPT
                 !.interrupts_enabled = without_interrupts(cpu.interrupts_enabled),
                 !.handlers[Len(cpu.handlers)].printed = @ + 1,
                 !.handlers[Len(cpu.handlers)].pc =
                     IF running.printed = 38 THEN "next_move" ELSE "print_msg"]
    /\ UNCHANGED <<difficulty, counter, snake, game_over, next_move, ticks, last, written>>

\* self.next_move = None
next_move_section ==
    /\ at("timer", "next_move")
    /\ next_move' = None
    /\ cpu' = [cpu EXCEPT !.handlers[Len(cpu.handlers)].pc = "return"]
    /\ UNCHANGED <<difficulty, counter, snake, game_over, writer, ticks, last, written>>

accept_keyboard_input_section ==
    /\ at("keyboard", "accept_keyboard_input")
    /\ LET key_event == running.key_event[1]
       IN  next_move' =
             IF key_event.state = "Down"
             THEN CASE key_event.code = "ArrowUp" -> Some(Up)
                    [] key_event.code = "ArrowRight" -> Some(Right)
                    [] key_event.code = "ArrowDown" -> Some(Down)
                    [] key_event.code = "ArrowLeft" -> Some(Left)
                    [] OTHER -> next_move
             ELSE next_move
    /\ cpu' = [cpu EXCEPT !.handlers[Len(cpu.handlers)].pc = "return"]
    /\ UNCHANGED <<difficulty, counter, snake, game_over, writer, ticks, last, written>>

\* the handler returns to what it interrupted, where interrupts were enabled
interrupt_return ==
    /\ cpu.handlers # <<>>
    /\ running.pc = "return"
    /\ cpu' = [cpu EXCEPT !.interrupts_enabled = TRUE,
                          !.handlers = SubSeq(cpu.handlers, 1, Len(cpu.handlers) - 1)]
    /\ UNCHANGED <<difficulty, counter, snake, game_over, next_move, writer, ticks,
                   last, written>>

NextIrq ==
    \/ timer_interrupt
    \/ \E key_event \in KeyEvent : keyboard_interrupt(key_event)
    \/ fetch_add_counter_section
    \/ move_snake_section
    \/ print_section
    \/ print_msg_section
    \/ next_move_section
    \/ accept_keyboard_input_section
    \/ interrupt_return

SpecIrq == (Init \/ InitLong) /\ [][NextIrq]_vars

(***************************************************************************)
(* Vocabulary of the properties of the Writer.                             *)
(***************************************************************************)
\* every byte of s is a printable ASCII character
Printable(s) == \A i \in 1..Len(s) : s[i] >= 32 /\ s[i] <= 126

\* the characters on a row of the display
RowText(row) == [col \in 0..79 |-> writer.buffer[row][col] % 256]

\* a row that holds s from column 0, cut at 80 columns, and blanks after it
Padded(s) == [col \in 0..79 |-> IF col < Len(s) THEN s[col + 1] ELSE 32]

\* where the last started row of a line of n characters begins in the line
RowStart(n) == IF n = 0 THEN 0 ELSE ((n - 1) \div 80) * 80

\* only write_byte and write_string were called, a newline was among the
\* bytes, and the bytes since the last newline are printable
OnTextLine ==
    /\ written.text_only
    /\ written.newlines > 0
    /\ Printable(written.line)

(***************************************************************************)
(* C12  Scroll invariant, as the claim states it: the bottom row holds the *)
(* printable characters written since the last newline from column 0,      *)
(* blanks after them, cut at 80 characters.  (Stated for lines begun by a  *)
(* newline; it fails for a line of more than 80 characters.)               *)
(***************************************************************************)
C12_BottomRowTruncated ==
    OnTextLine => RowText(24) = Padded(written.line)

(***************************************************************************)
(* C12  Scroll invariant, amended: the bottom row holds the characters     *)
(* written since the last scroll, from column 0 with blanks after them; a  *)
(* line of more than 80 characters continues on a new bottom row after     *)
(* every 80 characters, and its earlier rows of 80 lie right above.        *)
(***************************************************************************)
C12_BottomRowLastStarted ==
    OnTextLine =>
        LET n == Len(written.line)
        IN  /\ RowText(24) = Padded(SubSeq(written.line, RowStart(n) + 1, n))
            /\ writer.column_position = n - RowStart(n)
            /\ \A k \in 1..24 :
                 k * 80 <= RowStart(n) =>
                   RowText(24 - k) =
                     Padded(SubSeq(written.line, RowStart(n) - k * 80 + 1,
                                   RowStart(n) - k * 80 + 80))

\* a line of more than 80 printable characters, begun by a newline
C12_Witness ==
    /\ OnTextLine
    /\ Len(written.line) > 80
    /\ writer.column_position = Len(written.line) - 80
    /\ RowText(23) = Padded(SubSeq(written.line, 1, 80))

(***************************************************************************)
(* C13  Scroll step: a write_byte of a newline, or of another byte while   *)
(* the cursor column is 80, gives every row 0..23 the cells of the row     *)
(* below it and leaves the bottom row blank in the writer's colour with    *)
(* the cursor at column 0 (the byte that caused a wrap is then stored at   *)
(* column 0); any other write_byte leaves rows 0..23 alone.  And from any  *)
(* state, a newline, a printable string of at most 80 characters and a     *)
(* newline leave the string on row 23 from column 0.                       *)
(***************************************************************************)
C13_LineAboveBottom ==
    \A s \in {text \in TextDraws : Printable(text) /\ Len(text) <= 80} :
        LET w == write_string(write_string(write_string(writer, <<10>>), s), <<10>>)
        IN  [col \in 0..79 |-> w.buffer[23][col] % 256] = Padded(s)

C13_ScrollStep ==
    /\ []C13_LineAboveBottom
    /\ [][written'.call = "write_byte" =>
            LET byte == written'.arg[1]
            IN  IF byte = 10 \/ writer.column_position = 80
                THEN /\ \A row \in 0..23 : writer'.buffer[row] = writer.buffer[row + 1]
                     /\ \A col \in 0..79 :
                          writer'.buffer[24][col] =
                            writer.color_code * 256 +
                              (IF byte # 10 /\ col = 0 THEN byte ELSE 32)
                     /\ writer'.column_position = IF byte = 10 THEN 0 ELSE 1
                ELSE \A row \in 0..23 : writer'.buffer[row] = writer.buffer[row]]_vars

\* 'A' was written when 80 digits filled the bottom row: they are on row 23
C13_Witness ==
    /\ written.call = "write_byte"
    /\ written.arg = <<65>>
    /\ Len(written.line) = 81
    /\ writer.column_position = 1
    /\ RowText(24) = Padded(<<65>>)
    /\ RowText(23) = Padded(SubSeq(written.line, 1, 80))

\* what a cell shows for a byte of a string: the byte itself when it lies in
\* 0x20..0x7e, the glyph 0xfe otherwise
Glyph(byte) == IF byte >= 32 /\ byte <= 126 THEN byte ELSE 254

(***************************************************************************)
(* C14  Sanitization: write_string stores, in input order, Glyph(byte)     *)
(* for every byte that is not a newline, and stores no newline.  With the  *)
(* bytes after the last newline of the string (all of it without one)      *)
(* starting at column 0 (at the cursor without one): if they fit the row   *)
(* they follow each other on the bottom row and the rest of the row is as  *)
(* it was (blank after a newline); if they do not, the bottom row holds    *)
(* the last started row of them and blanks.  In both cases the cursor      *)
(* stands after the last byte.  After a newline or a wrap every cell of    *)
(* the bottom row holds a character in 0x20..0x7e or 0xfe.                 *)
(***************************************************************************)
C14_Sanitization ==
    [][written'.call = "write_string" =>
         LET s == written'.arg
             fresh == newlines_in(s) > 0
             tail == after_newline(s)
             from == IF fresh THEN 0 ELSE writer.column_position
             n == from + Len(tail)
         IN  IF n <= 80
             THEN /\ writer'.column_position = n
                  /\ \A col \in 0..79 :
                       writer'.buffer[24][col] =
                         IF col >= from /\ col < n
                         THEN writer.color_code * 256 + Glyph(tail[col - from + 1])
                         ELSE IF fresh THEN writer.color_code * 256 + 32
                         ELSE writer.buffer[24][col]
                  /\ ~fresh => \A row \in 0..23 : writer'.buffer[row] = writer.buffer[row]
             ELSE /\ writer'.column_position = n - RowStart(n)
                  /\ \A col \in 0..79 :
                       writer'.buffer[24][col] =
                         IF col < n - RowStart(n)
                         THEN writer.color_code * 256 +
                                Glyph(tail[RowStart(n) + col - from + 1])
                         ELSE writer.color_code * 256 + 32
                  /\ \A col \in 0..79 :
                       \/ writer'.buffer[24][col] % 256 \in 32..126
                       \/ writer'.buffer[24][col] % 256 = 254]_vars

\* the string with the bytes 0x07, 0xc3, 0xa9 and 0x7f was written behind "Hi"
C14_Witness ==
    /\ written.call = "write_string"
    /\ written.arg = <<97, 7, 195, 169, 127, 126, 32>>
    /\ writer.column_position = 9
    /\ [col \in 0..8 |-> writer.buffer[24][col] % 256] =
         [col \in 0..8 |-> <<72, 105, 97, 254, 254, 254, 254, 126, 32>>[col + 1]]

(***************************************************************************)
(* C20  Cursor bound: whatever is called on the Writer, the cursor column  *)
(* stays in 0..80 and the grid keeps its 25 rows of 80 cells;              *)
(* write_full_screen and init leave the cursor column as it was; and a     *)
(* byte given to write_byte that is not a newline is stored on the bottom  *)
(* row in a column 0..79, the cursor moving behind it.                     *)
(***************************************************************************)
C20_InGrid ==
    /\ writer.column_position \in 0..80
    /\ DOMAIN writer.buffer = 0..24
    /\ \A row \in 0..24 : DOMAIN writer.buffer[row] = 0..79

C20_CursorBound ==
    /\ []C20_InGrid
    /\ [][/\ written'.call \in {"write_full_screen", "init"} =>
               writer'.column_position = writer.column_position
          /\ (written'.call = "write_byte" /\ written'.arg # <<10>>) =>
               /\ writer'.column_position \in 1..80
               /\ writer'.buffer[24][writer'.column_position - 1] =
                    writer.color_code * 256 + written'.arg[1]]_vars

\* write_full_screen was called with the cursor behind the last column
C20_Witness ==
    /\ written.call = "write_full_screen"
    /\ writer.column_position = 80
    /\ writer.buffer[24][79] % 256 \in {35, 219}

\* the character the frame of snake s shows at row `row`, column `col`
FrameCharacter(s, row, col) ==
    IF row = 0 \/ row = 24 \/ col = 0 \/ col = 79 THEN 35
    ELSE IF <<row - 1, col - 1>> = s.positions[s.length - 1]
    THEN CASE s.direction = Right -> 62
           [] s.direction = Down -> 118
           [] s.direction = Left -> 60
           [] s.direction = Up -> 94
    ELSE IF s.treat = << <<row - 1, col - 1>> >> THEN 120
    ELSE IF \E i \in 0..(s.length - 1) : s.positions[i] = <<row - 1, col - 1>> THEN 43
    ELSE 32

(***************************************************************************)
(* C15  Frame rendering: after a qualifying tick that does not end the     *)
(* game every cell of the display holds, in the writer's colour, the       *)
(* character of the frame of the new snake ('#' on the border; inside, the *)
(* glyph of the direction on the head, else 'x' on the treat, else '+' on  *)
(* a body cell, else a blank); while the game runs, a tick that does not   *)
(* qualify and a key event leave the display as it is.                     *)
(***************************************************************************)
C15_FrameRendering ==
    [][/\ (IsTick /\ Qualifying /\ ~game_over') =>
            \A row \in 0..24 : \A col \in 0..79 :
                writer'.buffer[row][col] =
                    writer'.color_code * 256 + FrameCharacter(snake', row, col)
       /\ (~game_over /\ ~(IsTick /\ Qualifying)) => writer' = writer]_vars

\* a frame with the head turned Down, a treat and the tail of a grown snake
C15_Witness ==
    /\ last.call = "tick"
    /\ last.stepped
    /\ ~game_over
    /\ snake.direction = Down
    /\ snake.treat # None
    /\ snake.length > 3
    /\ writer.buffer[SnakeHead[1] + 1][SnakeHead[2] + 1] = 7 * 256 + 118
    /\ writer.buffer[snake.treat[1][1] + 1][snake.treat[1][2] + 1] = 7 * 256 + 120
    /\ writer.buffer[snake.positions[0][1] + 1][snake.positions[0][2] + 1] = 7 * 256 + 43
    /\ writer.buffer[0][0] = 7 * 256 + 35

\* display w shows msg centred on row 11, the blanks left and right of it
\* differing by one at most, and blanks on every other row, in colour 7
MessageAlone(w, msg) ==
    /\ \E left \in {(80 - Len(msg)) \div 2, (81 - Len(msg)) \div 2} :
         \A col \in 0..79 :
             w.buffer[11][col] =
                 7 * 256 + (IF col >= left /\ col < left + Len(msg)
                            THEN msg[col - left + 1] ELSE 32)
    /\ \A row \in (0..24) \ {11} : \A col \in 0..79 :
         w.buffer[row][col] = 7 * 256 + 32

(***************************************************************************)
(* C16  Terminal message display: right after the tick that ends the game  *)
(* the display shows the message of the failure ("Bounds reached!" or      *)
(* "Your snake bit itself!") centred on row 11 and blanks on the 24 other  *)
(* rows; and print_msg gives that display from the grid the tick found     *)
(* wherever the cursor stands.                                             *)
(***************************************************************************)
C16_TerminalMessage ==
    [][(IsTick /\ ~game_over /\ game_over') =>
         \E msg \in {MsgBounds, MsgBit} :
            /\ last'.result = <<msg>>
            /\ MessageAlone(writer', msg)
            /\ \A column \in {1, 40, 79, 80} :
                 MessageAlone(print_msg(msg, [writer EXCEPT !.column_position = column]),
                              msg)]_vars

\* the message of a bite, over what was the frame of the snake
C16_Witness ==
    /\ game_over
    /\ last.call = "tick"
    /\ last.stepped
    /\ last.result = <<MsgBit>>
    /\ [col \in 28..51 |-> writer.buffer[11][col] % 256] =
         [col \in 28..51 |-> IF col = 28 \/ col = 51 THEN 32 ELSE MsgBit[col - 28]]
    /\ writer.buffer[12][1] = 7 * 256 + 32
    /\ writer.column_position = 0

(***************************************************************************)
(* C17  Growth at capacity is unreachable: a snake of 100 cells has no     *)
(* treat; a tick that finds 100 cells makes no treat; move_snake never     *)
(* returns "Snake is at maximum length", which is never on the display.    *)
(***************************************************************************)
C17_NoGrowthAtCapacity ==
    /\ snake.length = 100 => snake.treat = None
    /\ (last.call = "tick" /\ last.from.length = 100) => last.at_move.treat = None
    /\ last.result # <<MsgMax>>
    /\ ~MessageAlone(writer, MsgMax)

\* the third step of the snake of 100 cells: no treat was made for it
C17_Witness ==
    /\ snake.length = 100
    /\ snake.treat = None
    /\ last.call = "tick"
    /\ last.stepped
    /\ last.steps = 162
    /\ last.from.length = 100
    /\ last.at_move.treat = None
    /\ ~game_over

(***************************************************************************)
(* C18  Pending-direction lifecycle: a tick that does not qualify (the     *)
(* counter is no multiple of the divisor, or the game is over) leaves the  *)
(* pending direction as it is; a qualifying tick moves the snake in the    *)
(* pending direction unless that reverses the current one, and leaves no   *)
(* pending direction, whether the turn was applied or rejected and whether *)
(* or not the tick ended the game.                                         *)
(***************************************************************************)
C18_PendingLifecycle ==
    [][IsTick =>
         IF Qualifying
         THEN /\ next_move' = None
              /\ snake'.direction = AfterTurn(snake.direction, next_move)
         ELSE /\ next_move' = next_move
              /\ snake'.direction = snake.direction]_vars

\* a tick that ended the game against the top edge consumed a pending Left
C18_Witness ==
    /\ game_over
    /\ last.call = "tick"
    /\ last.stepped
    /\ last.pending = <<Left>>
    /\ snake.direction = Left
    /\ last.from.direction = Up
    /\ last.result = <<MsgBounds>>
    /\ next_move = None

(***************************************************************************)
(* C19  Normal movement: on a qualifying tick whose next head position     *)
(* (after the turn) lies in the play-field, is not the treat (the one the  *)
(* snake had, or the one this tick made) and is no body cell, the game     *)
(* goes on, the length stays, every cell moves one index toward the tail   *)
(* (the old tail cell is dropped), the next position becomes the head, and *)
(* the treat stays.                                                        *)
(***************************************************************************)
C19_NormalMovement ==
    [][(IsTick /\ Qualifying) =>
         LET next_head == Advance(SnakeHead, AfterTurn(snake.direction, next_move))
             treat == IF snake.treat # None THEN snake.treat ELSE last'.at_move.treat
         IN  (InPlayField(next_head) /\ treat # <<next_head>>
                /\ next_head \notin SnakeBody) =>
               /\ ~game_over'
               /\ snake'.length = snake.length
               /\ \A i \in 0..(snake.length - 2) :
                    snake'.positions[i] = snake.positions[i + 1]
               /\ snake'.positions[snake.length - 1] = next_head
               /\ snake'.treat = treat
               /\ snake.positions[0] \notin
                    {snake'.positions[i] : i \in 0..(snake'.length - 1)}]_vars

\* the snake of 100 cells moved one cell on and dropped its tail cell (9,60)
C19_Witness ==
    /\ last.call = "tick"
    /\ last.stepped
    /\ last.result = Ok
    /\ last.from.length = 100
    /\ last.from.positions[0] = <<9, 60>>
    /\ snake.positions[0] = <<9, 61>>
    /\ snake.positions[99] = <<11, 4>>
    /\ snake.length = 100

====
